---- MODULE Spec2Model ----
(***************************************************************************)
(* A model of safe-hook: one hookable function record (its hook list       *)
(* behind an RwLock, its fast-path flag), the mutators add_hook,           *)
(* add_hook_with_priority, remove_hook and clear_hooks, the call site the  *)
(* #[hookable] macro generates, and the dispatch of call_with_hook with    *)
(* its shared cursor `pos`.  Threads interleave at every access to shared  *)
(* state (the lock, the list, the flag) and at every call and return of a  *)
(* hook.  The registry of records and the list and flag of a second        *)
(* hookable function are carried along: no operation writes them.          *)
(***************************************************************************)
EXTENDS Integers, Sequences, FiniteSets, TLC

\* ------------------------------------------------------------- bounds
\* Longest hook list the model builds.
MaxHooks == 3
\* Most calls of `next` the hooks make in one outer call, all together.
MaxNext == 4

\* Most records in the registry.
MaxReg == 3

\* Calls of `next` in the body of the tests' hooks (HookAdd, ConcatHook).
TestNext == 1

\* ------------------------------------------------------------- universe
Threads == {"t1", "t2"}
NoThread == "none"

\* Hook objects (Arc allocations).  GoodHooks implement Hook with the
\* target's Args/Result; BadHooks with other types.
GoodHooks == {"h1", "h2"}
BadHooks == {"hx"}
HookObjs == GoodHooks \cup BadHooks

\* Priorities passed to add_hook_with_priority (add_hook passes 0): with
\* several threads (and where liveness is checked), and with one.
PriosConc == {5, 10}
PriosLive == {5}
Prios == {1, 5, 10}

\* The argument a thread passes to the target: each thread its own.
ArgOf(t) == IF t = "t1" THEN "a1" ELSE "a2"

\* HookDyn::type_info of a hook object: the (Result, Args) TypeId pair.
type_info(h) == IF h \in BadHooks THEN "sigB" ELSE "sigA"

\* HookableFuncMetadata.type_info of the record.
meta_type_info == "sigA"

\* The original function (__hookable_inner): a fixed function of its
\* arguments.  Values are sequences of marks, so that a value shows the
\* path it took.
func(args) == Append(args, "orig")

VARIABLES
    hooks,           \* HookableFuncMetadata.hooks: sequence of [h, p]
    fast_path_flag,  \* the AtomicBool FLAG
    writer,          \* thread holding the write lock, or NoThread
    readers,         \* per thread: read guards it holds
    pc,              \* per thread: where it is
    op,              \* per thread: the operation in progress and its inputs
    res,             \* per thread: the value the operation returned
    pos,             \* per thread: the Cell `pos` of its call_with_hook
    stack,           \* per thread: the hook invocations in progress
    cur,             \* per thread: the value being passed (args) or returned
    via,             \* per thread: "fast" or "disp", the path of its call
    nInv,            \* per thread and slot: invocations of the hook in that slot
    nOrig,           \* per thread: invocations of the original function
    miss,            \* per thread: a hook returned with calls # 1, or a panic
    nNext,           \* per thread: calls of `next` by hooks in this outer call
    poisoned,        \* the RwLock is poisoned: a writer panicked holding it
    registry,        \* the records inventory collected, in iteration order:
                     \* their name, func and type_info
    other,           \* the hook list and the flag (META.hooks, FLAG) of a
                     \* second hookable function
    settled          \* hooks whose add returned Ok, no remove or clear since
                     \* (a history of the calls, kept where Init starts it)

vars == <<hooks, fast_path_flag, writer, readers, pc, op, res, pos, stack,
          cur, via, nInv, nOrig, miss, nNext, poisoned, registry, other, settled>>

shared == <<hooks, fast_path_flag, writer, readers>>
dispatch == <<pos, stack, cur, via, nInv, nOrig, miss, nNext>>
\* What no operation on the record writes: the lock's poison flag (only a
\* panic under a write guard sets it), the registry (built at link time; the
\* fields name, func and type_info are private and never assigned after
\* HookableFuncMetadata::new) and the list and flag of another record (the
\* methods reach self.hooks and self.fast_path_flag only).
rest == <<poisoned, registry, other>>

\* Invocations of one outer call are counted as none, once or many.
More(c) == IF c = "none" THEN "once" ELSE "many"
Slots == 0..(MaxHooks - 1)
NoInv == [i \in Slots |-> "none"]

NoOp == [kind |-> "none", h |-> "none", p |-> 0, arg |-> "none"]
\* Results are sequences: of one word for a mutator (Ok, Err, true, false,
\* unit) and for a panic, of marks for a call of the target.
NoRes == << >>

\* The static part of the record the model follows: its name, the pointer
\* to its original function (pointers are numbered in the order in which
\* inventory yields the records) and its (Result, Args) TypeId pair.
TargetRecord == [name |-> "add", func |-> 1, type_info |-> meta_type_info]

\* The static part of a second hookable function, of another signature
\* (tests/concat.rs), and the registry that holds both.
ConcatRecord == [name |-> "concat", func |-> 2, type_info |-> "sigB"]
TwoRecords == <<TargetRecord, ConcatRecord>>

\* The list and the flag of a record as HookableFuncMetadata::new and the
\* macro's `static FLAG` make them.
NewRecord == [hooks |-> << >>, fast_path_flag |-> FALSE]

\* The list and the flag of the second function after calls of its own
\* mutators: no hook, one, or two (of its signature).
OtherRecords ==
    {NewRecord,
     [hooks |-> <<[h |-> "hx", p |-> 0]>>, fast_path_flag |-> TRUE],
     [hooks |-> <<[h |-> "hx", p |-> 5], [h |-> "hx", p |-> 0]>>, fast_path_flag |-> TRUE]}

\* Names given to #[hookable(..)], and names asked of lookup_hookable.
RegNames == {"add", "concat"}
QueryNames == RegNames \cup {"sub"}

\* The registries inventory can have collected: any names, also the same
\* name several times, every record with its own function.
Registries ==
    UNION {{[i \in 1..n |-> [name |-> ns[i], func |-> i,
                             type_info |-> IF ns[i] = "add" THEN meta_type_info ELSE "sigB"]] :
                ns \in [1..n -> RegNames]} :
           n \in 0..MaxReg}

\* The value of `settled` where the history is not kept.
Untracked == {"untracked"}

\* HookableFuncMetadata::new and the threads before their first call.
InitRecord ==
    /\ poisoned = FALSE
    /\ hooks = << >>
    /\ fast_path_flag = FALSE
    /\ writer = NoThread
    /\ readers = [t \in Threads |-> 0]
    /\ pc = [t \in Threads |-> "idle"]
    /\ op = [t \in Threads |-> NoOp]
    /\ res = [t \in Threads |-> NoRes]
    /\ pos = [t \in Threads |-> 0]
    /\ stack = [t \in Threads |-> << >>]
    /\ cur = [t \in Threads |-> << >>]
    /\ via = [t \in Threads |-> "none"]
    /\ nInv = [t \in Threads |-> NoInv]
    /\ nOrig = [t \in Threads |-> "none"]
    /\ miss = [t \in Threads |-> FALSE]
    /\ nNext = [t \in Threads |-> 0]

Init ==
    /\ InitRecord
    /\ registry = <<TargetRecord>>
    /\ other = NewRecord
    /\ settled = Untracked

\* ------------------------------------------------------------- the lock
\* A mutator that ignores the readers: it takes the write lock as soon as no
\* other writer holds it.
CanWriteNoWait == writer = NoThread

\* RwLock::write: granted when no reader and no writer holds the lock.
CanWrite == writer = NoThread /\ \A u \in Threads : readers[u] = 0

\* A reader that does not wait for the writer.
CanReadAlways == TRUE

\* RwLock::read: granted when no writer holds the lock.
CanRead == writer = NoThread

\* Threads inside an add_hook_with_priority that passed the type check.
Adding == {u \in Threads : pc[u] \in {"add_wait", "add_insert", "add_store", "add_return"}}

\* The operation record of a call of the target.
CallOp(t) == [kind |-> "call", h |-> "none", p |-> 0, arg |-> ArgOf(t)]

\* A mutator called from the body of a hook (a dispatch of the thread is in
\* progress) returns into that body; any other returns to the thread.
Nested(t) == stack[t] # << >>
ResumePc(t) == IF Nested(t) THEN "hook" ELSE "ret"
ResumeOp(t) == IF Nested(t) THEN CallOp(t) ELSE op[t]

\* .unwrap() on the Err(PoisonError) of a poisoned lock: the guard inside the
\* error is dropped and the panic leaves the operation, to the caller of the
\* thread or into the body of the hook that called.
PoisonError(t) ==
    /\ pc' = [pc EXCEPT ![t] = IF Nested(t) THEN "raised" ELSE "ret"]
    /\ op' = [op EXCEPT ![t] = ResumeOp(t)]
    /\ res' = [res EXCEPT ![t] = IF Nested(t) THEN res[t] ELSE <<"panic">>]

\* Threads inside a remove_hook or a clear_hooks.
Removing == {u \in Threads : pc[u] \in {"rem_wait", "rem_find", "rem_store", "rem_return",
                                       "clr_wait", "clr_clear", "clr_store", "clr_return"}}

\* ------------------------------------------------------------- add_hook
\* The position with `<` for `<=`: behind the entries of equal priority.
InsertPosStrict(hs, p) ==
    IF \E j \in 1..Len(hs) : hs[j].p < p
    THEN CHOOSE j \in 1..Len(hs) : hs[j].p < p /\ \A k \in 1..(j - 1) : hs[k].p >= p
    ELSE Len(hs) + 1

\* The position of a push: the end of the list.
InsertPosEnd(hs, p) == Len(hs) + 1

\* hooks.iter().position(|h| h.1 <= priority).unwrap_or(hooks.len()),
\* as a 1-based index into the sequence.
InsertPos(hs, p) ==
    IF \E j \in 1..Len(hs) : hs[j].p <= p
    THEN CHOOSE j \in 1..Len(hs) : hs[j].p <= p /\ \A k \in 1..(j - 1) : hs[k].p > p
    ELSE Len(hs) + 1

\* Vec::insert(pos, e)
InsertAt(hs, j, e) == SubSeq(hs, 1, j - 1) \o <<e>> \o SubSeq(hs, j, Len(hs))

\* Vec::remove(pos)
RemoveAt(hs, j) == SubSeq(hs, 1, j - 1) \o SubSeq(hs, j + 1, Len(hs))

\* The type check with the comparison left out.
TypeMatchesAny(h) == TRUE

\* hook.type_info() != self.type_info is false: the hook may be added.
TypeMatches(h) == type_info(h) = meta_type_info

\* add_hook_with_priority, entry: the type check.  A mismatch returns Err
\* at once; otherwise the thread goes on to self.hooks.write().
add_hook_with_priority(t, h, p) ==
    /\ pc[t] = "idle"
    /\ Len(hooks) + Cardinality(Adding) < MaxHooks
    /\ op' = [op EXCEPT ![t] = [kind |-> "add", h |-> h, p |-> p, arg |-> "none"]]
    /\ IF ~TypeMatches(h)
       THEN /\ pc' = [pc EXCEPT ![t] = "ret"]
            /\ res' = [res EXCEPT ![t] = <<"Err">>]
       ELSE /\ pc' = [pc EXCEPT ![t] = "add_wait"]
            /\ res' = res
    /\ UNCHANGED <<shared, dispatch>>
    /\ UNCHANGED <<rest, settled>>

\* add_hook: add_hook_with_priority with priority 0.
add_hook(t, h) == add_hook_with_priority(t, h, 0)

\* let mut hooks = self.hooks.write().unwrap();
add_write(t) ==
    /\ pc[t] = "add_wait"
    /\ CanWrite
    /\ IF poisoned
       THEN /\ PoisonError(t)
            /\ writer' = writer
       ELSE /\ writer' = t
            /\ pc' = [pc EXCEPT ![t] = "add_insert"]
            /\ UNCHANGED <<op, res>>
    /\ UNCHANGED <<hooks, fast_path_flag, readers, dispatch>>
    /\ UNCHANGED <<rest, settled>>

\* position, then hooks.insert(pos, (hook, priority))
add_insert(t) ==
    /\ pc[t] = "add_insert"
    /\ hooks' = InsertAt(hooks, InsertPos(hooks, op[t].p), [h |-> op[t].h, p |-> op[t].p])
    /\ pc' = [pc EXCEPT ![t] = "add_store"]
    /\ UNCHANGED <<fast_path_flag, writer, readers, op, res, dispatch>>
    /\ UNCHANGED <<rest, settled>>

\* add_hook_with_priority without its store to the flag.
add_store_skipped(t) ==
    /\ pc[t] = "add_store"
    /\ pc' = [pc EXCEPT ![t] = "add_return"]
    /\ UNCHANGED <<shared, op, res, dispatch>>
    /\ UNCHANGED <<rest, settled>>

\* self.fast_path_flag.store(true, Release)
add_store(t) ==
    /\ pc[t] = "add_store"
    /\ fast_path_flag' = TRUE
    /\ pc' = [pc EXCEPT ![t] = "add_return"]
    /\ UNCHANGED <<hooks, writer, readers, op, res, dispatch>>
    /\ UNCHANGED <<rest, settled>>

\* Ok(()) and the drop of the write guard
add_return(t) ==
    /\ pc[t] = "add_return"
    /\ writer' = NoThread
    /\ res' = [res EXCEPT ![t] = <<"Ok">>]
    /\ pc' = [pc EXCEPT ![t] = ResumePc(t)]
    /\ op' = [op EXCEPT ![t] = ResumeOp(t)]
    /\ UNCHANGED <<hooks, fast_path_flag, readers, dispatch>>
    /\ settled' = IF settled # Untracked /\ Removing = {}
                  THEN settled \cup {op[t].h} ELSE settled
    /\ UNCHANGED rest

\* ------------------------------------------------------------- remove_hook
\* The position with rposition for position: the last entry of the hook.
FindPosLast(hs, h) ==
    IF \E j \in 1..Len(hs) : hs[j].h = h
    THEN CHOOSE j \in 1..Len(hs) : hs[j].h = h /\ \A k \in (j + 1)..Len(hs) : hs[k].h # h
    ELSE 0

\* hooks.iter().position(|h| std::ptr::addr_eq(h.0.as_ref(), hook)), as a
\* 1-based index; 0 stands for None.  Two references are the same address
\* exactly when they are the same hook object.
FindPos(hs, h) ==
    IF \E j \in 1..Len(hs) : hs[j].h = h
    THEN CHOOSE j \in 1..Len(hs) : hs[j].h = h /\ \A k \in 1..(j - 1) : hs[k].h # h
    ELSE 0

\* remove_hook, entry: the thread goes on to self.hooks.write().
remove_hook(t, h) ==
    /\ pc[t] = "idle"
    /\ op' = [op EXCEPT ![t] = [kind |-> "remove", h |-> h, p |-> 0, arg |-> "none"]]
    /\ pc' = [pc EXCEPT ![t] = "rem_wait"]
    /\ UNCHANGED <<shared, res, dispatch>>
    /\ settled' = IF settled # Untracked THEN {} ELSE settled
    /\ UNCHANGED rest

\* let mut hooks = self.hooks.write().unwrap();
remove_write(t) ==
    /\ pc[t] = "rem_wait"
    /\ CanWrite
    /\ IF poisoned
       THEN /\ PoisonError(t)
            /\ writer' = writer
       ELSE /\ writer' = t
            /\ pc' = [pc EXCEPT ![t] = "rem_find"]
            /\ UNCHANGED <<op, res>>
    /\ UNCHANGED <<hooks, fast_path_flag, readers, dispatch>>
    /\ UNCHANGED <<rest, settled>>

\* if let Some(pos) = position(..) { hooks.remove(pos); .. true } else { false }
remove_find(t) ==
    /\ pc[t] = "rem_find"
    /\ LET j == FindPos(hooks, op[t].h) IN
        IF j # 0
        THEN /\ hooks' = RemoveAt(hooks, j)
             /\ res' = [res EXCEPT ![t] = <<"true">>]
             /\ pc' = [pc EXCEPT ![t] = "rem_store"]
        ELSE /\ hooks' = hooks
             /\ res' = [res EXCEPT ![t] = <<"false">>]
             /\ pc' = [pc EXCEPT ![t] = "rem_return"]
    /\ UNCHANGED <<fast_path_flag, writer, readers, op, dispatch>>
    /\ UNCHANGED <<rest, settled>>

\* remove_hook with its store to the flag made whatever the list holds.
remove_store_always(t) ==
    /\ pc[t] = "rem_store"
    /\ fast_path_flag' = FALSE
    /\ pc' = [pc EXCEPT ![t] = "rem_return"]
    /\ UNCHANGED <<hooks, writer, readers, op, res, dispatch>>
    /\ UNCHANGED <<rest, settled>>

\* if hooks.is_empty() { self.fast_path_flag.store(false, Relaxed) }
remove_store(t) ==
    /\ pc[t] = "rem_store"
    /\ fast_path_flag' = IF hooks = << >> THEN FALSE ELSE fast_path_flag
    /\ pc' = [pc EXCEPT ![t] = "rem_return"]
    /\ UNCHANGED <<hooks, writer, readers, op, res, dispatch>>
    /\ UNCHANGED <<rest, settled>>

\* the drop of the write guard and the return of the bool
remove_return(t) ==
    /\ pc[t] = "rem_return"
    /\ writer' = NoThread
    /\ pc' = [pc EXCEPT ![t] = ResumePc(t)]
    /\ op' = [op EXCEPT ![t] = ResumeOp(t)]
    /\ UNCHANGED <<hooks, fast_path_flag, readers, res, dispatch>>
    /\ UNCHANGED <<rest, settled>>

\* ------------------------------------------------------------- clear_hooks
\* clear_hooks, entry: the thread goes on to self.hooks.write().
clear_hooks(t) ==
    /\ pc[t] = "idle"
    /\ op' = [op EXCEPT ![t] = [kind |-> "clear", h |-> "none", p |-> 0, arg |-> "none"]]
    /\ pc' = [pc EXCEPT ![t] = "clr_wait"]
    /\ UNCHANGED <<shared, res, dispatch>>
    /\ settled' = IF settled # Untracked THEN {} ELSE settled
    /\ UNCHANGED rest

\* let mut hooks = self.hooks.write().unwrap();
clear_write(t) ==
    /\ pc[t] = "clr_wait"
    /\ CanWrite
    /\ IF poisoned
       THEN /\ PoisonError(t)
            /\ writer' = writer
       ELSE /\ writer' = t
            /\ pc' = [pc EXCEPT ![t] = "clr_clear"]
            /\ UNCHANGED <<op, res>>
    /\ UNCHANGED <<hooks, fast_path_flag, readers, dispatch>>
    /\ UNCHANGED <<rest, settled>>

\* hooks.clear()
clear_clear(t) ==
    /\ pc[t] = "clr_clear"
    /\ hooks' = << >>
    /\ pc' = [pc EXCEPT ![t] = "clr_store"]
    /\ UNCHANGED <<fast_path_flag, writer, readers, op, res, dispatch>>
    /\ UNCHANGED <<rest, settled>>

\* clear_hooks without its store to the flag.
clear_store_skipped(t) ==
    /\ pc[t] = "clr_store"
    /\ pc' = [pc EXCEPT ![t] = "clr_return"]
    /\ UNCHANGED <<shared, op, res, dispatch>>
    /\ UNCHANGED <<rest, settled>>

\* self.fast_path_flag.store(false, Relaxed)
clear_store(t) ==
    /\ pc[t] = "clr_store"
    /\ fast_path_flag' = FALSE
    /\ pc' = [pc EXCEPT ![t] = "clr_return"]
    /\ UNCHANGED <<hooks, writer, readers, op, res, dispatch>>
    /\ UNCHANGED <<rest, settled>>

\* the drop of the write guard
clear_return(t) ==
    /\ pc[t] = "clr_return"
    /\ writer' = NoThread
    /\ res' = [res EXCEPT ![t] = <<"unit">>]
    /\ pc' = [pc EXCEPT ![t] = ResumePc(t)]
    /\ op' = [op EXCEPT ![t] = ResumeOp(t)]
    /\ UNCHANGED <<hooks, fast_path_flag, readers, dispatch>>
    /\ UNCHANGED <<rest, settled>>

\* ------------------------------------------------------------- the call site
\* The wrapper the macro generates: if !FLAG.load(Acquire) the original body
\* runs directly, otherwise call_with_hook is entered.
hookable(t) ==
    /\ pc[t] = "idle"
    /\ op' = [op EXCEPT ![t] = [kind |-> "call", h |-> "none", p |-> 0, arg |-> ArgOf(t)]]
    /\ cur' = [cur EXCEPT ![t] = <<ArgOf(t)>>]
    /\ IF ~fast_path_flag
       THEN /\ pc' = [pc EXCEPT ![t] = "fast"]
            /\ via' = [via EXCEPT ![t] = "fast"]
       ELSE /\ pc' = [pc EXCEPT ![t] = "disp_wait"]
            /\ via' = [via EXCEPT ![t] = "disp"]
    /\ UNCHANGED <<shared, res, pos, stack, nInv, nOrig, miss, nNext>>
    /\ UNCHANGED <<rest, settled>>

\* The fast path without its `return`: the original body runs, its result is
\* dropped and call_with_hook is entered all the same.
hookable_inner_fallthrough(t) ==
    /\ pc[t] = "fast"
    /\ nOrig' = [nOrig EXCEPT ![t] = More(nOrig[t])]
    /\ pc' = [pc EXCEPT ![t] = "disp_wait"]
    /\ UNCHANGED <<shared, op, res, pos, stack, cur, via, nInv, miss, nNext>>
    /\ UNCHANGED <<rest, settled>>

\* return __hookable_inner(args): the fast path.
hookable_inner(t) ==
    /\ pc[t] = "fast"
    /\ res' = [res EXCEPT ![t] = func(cur[t])]
    /\ nOrig' = [nOrig EXCEPT ![t] = More(nOrig[t])]
    /\ pc' = [pc EXCEPT ![t] = "ret"]
    /\ UNCHANGED <<shared, op, pos, stack, cur, via, nInv, miss, nNext>>
    /\ UNCHANGED <<rest, settled>>

\* ------------------------------------------------------------- call_with_hook
\* The cursor starting one past the first slot.
StartPosOne == 0 + 1

\* Cell::new(0): the cursor at the start of an outer call.
StartPos == 0

\* let hooks = meta.hooks.read().unwrap(); let pos = Cell::new(0);
\* the outer next_fn(args) is about to run.
call_with_hook(t) ==
    /\ pc[t] = "disp_wait"
    /\ CanRead
    /\ IF poisoned
       THEN /\ PoisonError(t)
            /\ UNCHANGED <<readers, pos>>
       ELSE /\ readers' = [readers EXCEPT ![t] = readers[t] + 1]
            /\ pos' = [pos EXCEPT ![t] = StartPos]
            /\ pc' = [pc EXCEPT ![t] = "next"]
            /\ UNCHANGED <<op, res>>
    /\ UNCHANGED <<hooks, fast_path_flag, writer, stack, cur, via, nInv, nOrig, miss, nNext>>
    /\ UNCHANGED <<rest, settled>>

Top(st) == st[Len(st)]
Pop(st) == SubSeq(st, 1, Len(st) - 1)

\* Every hook invocation in progress has now had something invoked under it.
Mark(st) == [k \in 1..Len(st) |-> [st[k] EXCEPT !.sub = TRUE]]

\* The value `v` arrives at whoever called next_fn: the hook on top of the
\* stack (which goes on running), or call_with_hook itself.
Deliver(t, st, v) ==
    /\ cur' = [cur EXCEPT ![t] = v]
    /\ IF st = << >>
       THEN /\ stack' = [stack EXCEPT ![t] = st]
            /\ pc' = [pc EXCEPT ![t] = "outer"]
       ELSE /\ stack' = [stack EXCEPT ![t] = [st EXCEPT ![Len(st)].last = v]]
            /\ pc' = [pc EXCEPT ![t] = "hook"]

\* next_fn, from its start to the call it makes: with pos < hooks.len() it
\* selects hooks[pos], advances pos and calls the hook; otherwise it calls
\* func(args) and returns the result to its caller.
next_fn(t) ==
    /\ pc[t] = "next"
    /\ IF pos[t] < Len(hooks)
       THEN /\ stack' = [stack EXCEPT ![t] = Append(Mark(stack[t]),
                            [slot |-> pos[t], h |-> hooks[pos[t] + 1].h, in |-> cur[t],
                             calls |-> 0, last |-> << >>, sub |-> FALSE,
                             unw |-> FALSE])]
            /\ pos' = [pos EXCEPT ![t] = pos[t] + 1]
            /\ nInv' = [nInv EXCEPT ![t][pos[t]] = More(@)]
            /\ pc' = [pc EXCEPT ![t] = "hook"]
            /\ UNCHANGED <<cur, nOrig>>
       ELSE /\ Deliver(t, Mark(stack[t]), func(cur[t]))
            /\ nOrig' = [nOrig EXCEPT ![t] = More(nOrig[t])]
            /\ UNCHANGED <<pos, nInv>>
    /\ UNCHANGED <<shared, op, res, via, miss, nNext>>
    /\ UNCHANGED <<rest, settled>>

\* The cursor left as the hook's return found it.
RestoreNone(p) == p

\* The cursor taken back by two.
RestoreTwice(p) == p - 2

\* pos.set(pos.get() - 1): the cursor after a hook returned.
Restore(p) == p - 1

\* next_fn, after the hook returned `res`: pos.set(pos.get() - 1); res
next_fn_exit(t) ==
    /\ pc[t] = "unwind"
    /\ pos' = [pos EXCEPT ![t] = Restore(pos[t])]
    /\ Deliver(t, Pop(stack[t]), cur[t])
    /\ UNCHANGED <<shared, op, res, via, nInv, nOrig, miss, nNext>>
    /\ UNCHANGED <<rest, settled>>

\* call_with_hook returning with the list taken out of the record (the hooks
\* consumed by the dispatch) and the flag cleared.
call_return_drain(t) ==
    /\ pc[t] = "outer"
    /\ readers' = [readers EXCEPT ![t] = readers[t] - 1]
    /\ res' = [res EXCEPT ![t] = cur[t]]
    /\ pc' = [pc EXCEPT ![t] = "ret"]
    /\ hooks' = << >>
    /\ fast_path_flag' = FALSE
    /\ UNCHANGED <<writer, op, dispatch>>
    /\ UNCHANGED <<rest, settled>>

\* call_with_hook returns the outer next_fn's result; the read guard drops.
call_return(t) ==
    /\ pc[t] = "outer"
    /\ readers' = [readers EXCEPT ![t] = readers[t] - 1]
    /\ res' = [res EXCEPT ![t] = cur[t]]
    /\ pc' = [pc EXCEPT ![t] = "ret"]
    /\ UNCHANGED <<hooks, fast_path_flag, writer, op, dispatch>>
    /\ UNCHANGED <<rest, settled>>

\* ------------------------------------------------------------- a hook's body
\* Hook::call as the tests' hooks write it (ConcatHook, HookAdd): the hook
\* marks the arguments it passes to `next` and marks the result it returns.
\* How often it calls `next` (the tests' hooks: once) is the hook's choice.
HookArgs(f) == Append(f.in, f.h)
HookResult(f) == IF f.calls = 0 THEN Append(HookArgs(f), "skip") ELSE Append(f.last, f.h)

\* next(args) inside Hook::call
hook_call_next(t, k) ==
    /\ pc[t] = "hook"
    /\ Top(stack[t]).calls < k
    /\ nNext[t] < MaxNext
    /\ nNext' = [nNext EXCEPT ![t] = nNext[t] + 1]
    /\ cur' = [cur EXCEPT ![t] = HookArgs(Top(stack[t]))]
    /\ stack' = [stack EXCEPT ![t][Len(stack[t])].calls = @ + 1]
    /\ pc' = [pc EXCEPT ![t] = "next"]
    /\ UNCHANGED <<shared, op, res, pos, via, nInv, nOrig, miss>>
    /\ UNCHANGED <<rest, settled>>

\* Hook::call returns
hook_return(t) ==
    /\ pc[t] = "hook"
    /\ cur' = [cur EXCEPT ![t] = HookResult(Top(stack[t]))]
    /\ miss' = [miss EXCEPT ![t] = miss[t] \/ Top(stack[t]).calls # 1]
    /\ pc' = [pc EXCEPT ![t] = "unwind"]
    /\ UNCHANGED <<shared, op, res, pos, stack, via, nInv, nOrig, nNext>>
    /\ UNCHANGED <<rest, settled>>

\* ------------------------------------------------------------- panics
\* A panic unwinds the frames between the place it is raised and the place
\* it is caught (catch_unwind in a hook) or the caller of the target.  The
\* frames of next_fn it passes run nothing: pos.set(pos.get() - 1) comes
\* after the call of the hook and is skipped.  The read guard of
\* call_with_hook is dropped by the unwinding.

\* Every hook invocation in progress has now had a panic unwind, under it,
\* a next_fn frame that had advanced the cursor.
Taint(st) == [k \in 1..Len(st) |-> [st[k] EXCEPT !.unw = TRUE]]

\* The unwinding arrives at whoever called: the hook on top of the stack,
\* inside its call of `next`, or call_with_hook.
Raise(t, st) ==
    /\ stack' = [stack EXCEPT ![t] = st]
    /\ pc' = [pc EXCEPT ![t] = IF st = << >> THEN "outer_panic" ELSE "raised"]

\* The body of a hook panics.
hook_panic(t) ==
    /\ pc[t] = "hook"
    /\ Raise(t, Taint(Pop(stack[t])))
    /\ miss' = [miss EXCEPT ![t] = TRUE]
    /\ UNCHANGED <<shared, op, res, pos, cur, via, nInv, nOrig, nNext>>
    /\ UNCHANGED <<rest, settled>>

\* next_fn calls func(args) and the original function panics.
func_panic(t) ==
    /\ pc[t] = "next"
    /\ ~(pos[t] < Len(hooks))
    /\ Raise(t, Mark(stack[t]))
    /\ nOrig' = [nOrig EXCEPT ![t] = More(nOrig[t])]
    /\ miss' = [miss EXCEPT ![t] = TRUE]
    /\ UNCHANGED <<shared, op, res, pos, cur, via, nInv, nNext>>
    /\ UNCHANGED <<rest, settled>>

\* The original function panics on the fast path.
hookable_inner_panic(t) ==
    /\ pc[t] = "fast"
    /\ res' = [res EXCEPT ![t] = <<"panic">>]
    /\ nOrig' = [nOrig EXCEPT ![t] = More(nOrig[t])]
    /\ pc' = [pc EXCEPT ![t] = "ret"]
    /\ UNCHANGED <<shared, op, pos, stack, cur, via, nInv, miss, nNext>>
    /\ UNCHANGED <<rest, settled>>

\* A hook that wrapped its call of `next` in catch_unwind gets the panic as
\* the outcome of the call and goes on running.
hook_catch(t) ==
    /\ pc[t] = "raised"
    /\ stack' = [stack EXCEPT ![t][Len(stack[t])].last = <<"panic">>]
    /\ cur' = [cur EXCEPT ![t] = <<"panic">>]
    /\ pc' = [pc EXCEPT ![t] = "hook"]
    /\ UNCHANGED <<shared, op, res, pos, via, nInv, nOrig, miss, nNext>>
    /\ UNCHANGED <<rest, settled>>

\* A hook that does not catch: the panic unwinds it and the next_fn frame
\* that called it.
hook_propagate(t) ==
    /\ pc[t] = "raised"
    /\ Raise(t, Taint(Pop(stack[t])))
    /\ miss' = [miss EXCEPT ![t] = TRUE]
    /\ UNCHANGED <<shared, op, res, pos, cur, via, nInv, nOrig, nNext>>
    /\ UNCHANGED <<rest, settled>>

\* The panic leaves call_with_hook with the read guard kept (a guard
\* forgotten instead of dropped).
call_unwind_leak(t) ==
    /\ pc[t] = "outer_panic"
    /\ res' = [res EXCEPT ![t] = <<"panic">>]
    /\ pc' = [pc EXCEPT ![t] = "ret"]
    /\ UNCHANGED <<shared, op, dispatch>>
    /\ UNCHANGED <<rest, settled>>

\* The panic leaves call_with_hook: the read guard drops (a read guard
\* dropped while panicking does not poison the lock), the caller of the
\* target gets the panic.
call_unwind(t) ==
    /\ pc[t] = "outer_panic"
    /\ readers' = [readers EXCEPT ![t] = readers[t] - 1]
    /\ res' = [res EXCEPT ![t] = <<"panic">>]
    /\ pc' = [pc EXCEPT ![t] = "ret"]
    /\ UNCHANGED <<hooks, fast_path_flag, writer, op, dispatch>>
    /\ UNCHANGED <<rest, settled>>

\* ------------------------------------------------------------- calls from a hook's body
\* Hook::call is user code: it may call the mutators of the record and the
\* target itself while the dispatch that runs it holds the read lock.

\* Threads waiting in self.hooks.write().
WritersWaiting == {u \in Threads : pc[u] \in {"add_wait", "rem_wait", "clr_wait"}}

\* add_hook(h) called in the body of a hook.
hook_add_hook(t, h) ==
    /\ pc[t] = "hook"
    /\ Len(hooks) + Cardinality(Adding) < MaxHooks
    /\ IF ~TypeMatches(h)
       THEN /\ res' = [res EXCEPT ![t] = <<"Err">>]
            /\ UNCHANGED <<pc, op>>
       ELSE /\ op' = [op EXCEPT ![t] = [kind |-> "add", h |-> h, p |-> 0, arg |-> "none"]]
            /\ pc' = [pc EXCEPT ![t] = "add_wait"]
            /\ res' = res
    /\ UNCHANGED <<shared, dispatch, rest, settled>>

\* remove_hook(h) called in the body of a hook.
hook_remove_hook(t, h) ==
    /\ pc[t] = "hook"
    /\ op' = [op EXCEPT ![t] = [kind |-> "remove", h |-> h, p |-> 0, arg |-> "none"]]
    /\ pc' = [pc EXCEPT ![t] = "rem_wait"]
    /\ settled' = IF settled # Untracked THEN {} ELSE settled
    /\ UNCHANGED <<shared, res, dispatch, rest>>

\* clear_hooks() called in the body of a hook.
hook_clear_hooks(t) ==
    /\ pc[t] = "hook"
    /\ op' = [op EXCEPT ![t] = [kind |-> "clear", h |-> "none", p |-> 0, arg |-> "none"]]
    /\ pc' = [pc EXCEPT ![t] = "clr_wait"]
    /\ settled' = IF settled # Untracked THEN {} ELSE settled
    /\ UNCHANGED <<shared, res, dispatch, rest>>

\* RwLock::write on a lock the calling thread holds for reading never gets
\* the lock: it blocks for ever, or (std: "might panic when called if the
\* lock is already held by the current thread") it panics into the body of
\* the hook.  Blocking is the absence of a step; this is the panic.
write_panic(t) ==
    /\ t \in WritersWaiting
    /\ readers[t] > 0
    /\ op' = [op EXCEPT ![t] = CallOp(t)]
    /\ pc' = [pc EXCEPT ![t] = "raised"]
    /\ miss' = [miss EXCEPT ![t] = TRUE]
    /\ UNCHANGED <<shared, res, pos, stack, cur, via, nInv, nOrig, nNext, rest, settled>>

\* The target called in the body of a hook: the wrapper loads the flag; with
\* the flag false the original body runs and returns to the hook, otherwise
\* the inner call_with_hook is entered.
hook_hookable(t) ==
    /\ pc[t] = "hook"
    /\ nNext[t] < MaxNext
    /\ nNext' = [nNext EXCEPT ![t] = nNext[t] + 1]
    /\ IF ~fast_path_flag
       THEN /\ nOrig' = [nOrig EXCEPT ![t] = More(nOrig[t])]
            /\ pc' = pc
       ELSE /\ pc' = [pc EXCEPT ![t] = "re_wait"]
            /\ nOrig' = nOrig
    /\ UNCHANGED <<shared, op, res, pos, stack, cur, via, nInv, miss, rest, settled>>

\* The inner call_with_hook takes the read lock again: meta.hooks.read().
\* The lock may grant it whenever no writer holds the lock.
hook_call_with_hook(t) ==
    /\ pc[t] = "re_wait"
    /\ CanRead
    /\ IF poisoned
       THEN /\ PoisonError(t)
            /\ readers' = readers
       ELSE /\ readers' = [readers EXCEPT ![t] = readers[t] + 1]
            /\ pc' = [pc EXCEPT ![t] = "re_run"]
            /\ UNCHANGED <<op, res>>
    /\ UNCHANGED <<hooks, fast_path_flag, writer, dispatch, rest, settled>>

\* The inner call runs its chain (hooks and original function that
\* terminate) with a cursor of its own, returns to the body of the hook and
\* drops its read guard.
hook_call_return(t) ==
    /\ pc[t] = "re_run"
    /\ readers' = [readers EXCEPT ![t] = readers[t] - 1]
    /\ pc' = [pc EXCEPT ![t] = "hook"]
    /\ UNCHANGED <<hooks, fast_path_flag, writer, op, res, dispatch, rest, settled>>

\* ------------------------------------------------------------- lookup_hookable
\* The loop with its test left out of the way of later records: the last
\* record of the name wins.
ScanLast(reg, name, i) ==
    IF \E j \in i..Len(reg) : reg[j].name = name
    THEN LET j == CHOOSE j \in i..Len(reg) :
                    reg[j].name = name /\ \A k \in (j + 1)..Len(reg) : reg[k].name # name
         IN <<"Some", reg[j].name, reg[j].func>>
    ELSE <<"None">>

\* for item in inventory::iter { if item.metadata.name == name { return
\* Some(item.metadata) } } None, from the i-th record on.
RECURSIVE Scan(_, _, _)
Scan(reg, name, i) ==
    IF i > Len(reg) THEN <<"None">>
    ELSE IF reg[i].name = name THEN <<"Some", reg[i].name, reg[i].func>>
    ELSE Scan(reg, name, i + 1)

\* lookup_hookable(name): reads the registry only.
lookup_hookable(t, name) ==
    /\ pc[t] = "idle"
    /\ op' = [op EXCEPT ![t] = [kind |-> "lookup", h |-> "none", p |-> 0, arg |-> name]]
    /\ res' = [res EXCEPT ![t] = Scan(registry, name, 1)]
    /\ pc' = [pc EXCEPT ![t] = "ret"]
    /\ UNCHANGED <<shared, dispatch, rest, settled>>

\* The caller takes the returned value; the thread is free again.
finish(t) ==
    /\ pc[t] = "ret"
    /\ pc' = [pc EXCEPT ![t] = "idle"]
    /\ op' = [op EXCEPT ![t] = NoOp]
    /\ res' = [res EXCEPT ![t] = NoRes]
    /\ pos' = [pos EXCEPT ![t] = 0]
    /\ stack' = [stack EXCEPT ![t] = << >>]
    /\ cur' = [cur EXCEPT ![t] = << >>]
    /\ via' = [via EXCEPT ![t] = "none"]
    /\ nInv' = [nInv EXCEPT ![t] = NoInv]
    /\ nOrig' = [nOrig EXCEPT ![t] = "none"]
    /\ miss' = [miss EXCEPT ![t] = FALSE]
    /\ nNext' = [nNext EXCEPT ![t] = 0]
    /\ UNCHANGED shared
    /\ UNCHANGED <<rest, settled>>

\* ------------------------------------------------------------- properties
Marks(hs) == [k \in 1..Len(hs) |-> hs[k].h]
Reverse(s) == [k \in 1..Len(s) |-> s[Len(s) + 1 - k]]
Sorted(hs) == \A j, k \in 1..Len(hs) : j < k => hs[j].p >= hs[k].p
NoHookInvoked(t) == \A i \in Slots : nInv[t][i] = "none"

\* C1: when every hook that ran in an outer call called `next` exactly once
\* and returned, nothing having panicked, the call has invoked the hook of
\* every slot of the list exactly once, in list order (the list being in
\* descending priority order), then the original function exactly once, on
\* the arguments as every hook in turn passed them on; and the result has
\* come back through the hooks in reverse order.  A call made while the
\* list holds a hook does enter the dispatch: with one thread, the fast
\* path runs over an empty list only.
C1_ChainOnceInOrder ==
    \A t \in Threads :
        /\ pc[t] = "fast" => hooks = << >>
        /\ (pc[t] = "outer" /\ ~miss[t]) =>
            /\ Sorted(hooks)
            /\ \A i \in Slots : nInv[t][i] = IF i < Len(hooks) THEN "once" ELSE "none"
            /\ nOrig[t] = "once"
            /\ cur[t] = func(<<op[t].arg>> \o Marks(hooks)) \o Reverse(Marks(hooks))

\* C1 witness: a call over hooks of priorities 10, 5, 1 has run the chain.
C1_Witness ==
    \E t \in Threads :
        /\ pc[t] = "outer" /\ ~miss[t]
        /\ [k \in 1..Len(hooks) |-> hooks[k].p] = <<10, 5, 1>>
        /\ Marks(hooks) = <<"h1", "h2", "h1">>

\* C3: the step of add_hook_with_priority that inserts (h, p) puts the entry
\* at one place j of the list, every entry that was there keeping its order:
\* all entries before j have priority > p, and all entries from j on (those
\* of priority < p and those of priority = p) have priority <= p.
C3_InsertPlace ==
    [][\A t \in Threads :
        (pc[t] = "add_insert" /\ pc'[t] = "add_store") =>
            LET e == [h |-> op[t].h, p |-> op[t].p]
                n == Len(hooks) IN
            /\ Len(hooks') = n + 1
            /\ \E j \in 1..(n + 1) :
                /\ hooks'[j] = e
                /\ \A k \in 1..n : hooks'[IF k < j THEN k ELSE k + 1] = hooks[k]
                /\ \A k \in 1..n : hooks[k].p > e.p => k < j
                /\ \A k \in 1..n : hooks[k].p < e.p => k >= j
                /\ \A k \in 1..n : hooks[k].p = e.p => k >= j]_vars

\* C3 witness: add_hook (priority 0) has just put its entry behind an entry of
\* higher priority and in front of an older entry of priority 0 and of the
\* same hook object.
C3_Witness ==
    \E t \in Threads :
        /\ pc[t] = "add_store" /\ op[t].p = 0 /\ Len(hooks) = 3
        /\ hooks[1].p > 0
        /\ hooks[2] = [h |-> op[t].h, p |-> 0]
        /\ hooks[3].p = 0 /\ hooks[3].h # op[t].h

\* C4: the hook list is in non-increasing priority order in every state.
C4_SortedByPriority == Sorted(hooks)

\* C4 witness: three entries of three priorities, one thread having removed
\* an entry and the other having just inserted the entry in the middle.
C4_Witness ==
    /\ Len(hooks) = 3 /\ hooks[1].p > hooks[2].p /\ hooks[2].p > hooks[3].p
    /\ \E t, u \in Threads :
        /\ pc[t] = "ret" /\ op[t].kind = "remove" /\ res[t] = <<"true">>
        /\ pc[u] = "add_store" /\ op[u].p = hooks[2].p

\* C5: a call of add_hook_with_priority (or add_hook) with a hook whose
\* type_info differs from the record's returns Err in the step that makes
\* the check, and the list and the flag are as they were.
C5_MismatchLeavesRecord ==
    [][\A t \in Threads :
        (pc[t] = "idle" /\ op'[t].kind = "add" /\ type_info(op'[t].h) # meta_type_info) =>
            /\ pc'[t] = "ret" /\ res'[t] = <<"Err">>
            /\ hooks' = hooks /\ fast_path_flag' = fast_path_flag
            /\ writer' = writer]_vars

\* C5 witness: a mismatched add_hook returned Err on a record with two hooks.
C5_Witness ==
    \E t \in Threads :
        /\ pc[t] = "ret" /\ op[t].kind = "add" /\ op[t].h \in BadHooks /\ res[t] = <<"Err">>
        /\ Len(hooks) = 2 /\ fast_path_flag

\* C6: every entry of the hook list has the record's own type_info, and so
\* has every hook a dispatch has invoked.
C6_ListMatchesSignature ==
    /\ \A k \in 1..Len(hooks) : type_info(hooks[k].h) = meta_type_info
    /\ \A t \in Threads : \A k \in 1..Len(stack[t]) :
            type_info(stack[t][k].h) = meta_type_info

\* C6 witness: a dispatch runs a hook while another thread's mismatched add
\* has returned Err.
C6_Witness ==
    \E t, u \in Threads :
        /\ pc[t] = "hook"
        /\ pc[u] = "ret" /\ op[u].h \in BadHooks /\ res[u] = <<"Err">>

\* C7: the step of remove_hook(h) that searches the list: with no entry of
\* hook object h it yields false, leaves the list and the flag alone and goes
\* straight to the return; otherwise it yields true and removes the earliest
\* entry of h and no other, every other entry keeping its order.  Until the
\* return, false stays the result and the record stays as it was.
C7_RemoveFirstIdentical ==
    [][\A t \in Threads :
        /\ (pc[t] = "rem_find" /\ pc'[t] # "rem_find") =>
            LET h == op[t].h
                n == Len(hooks) IN
            IF \A k \in 1..n : hooks[k].h # h
            THEN /\ res'[t] = <<"false">> /\ pc'[t] = "rem_return"
                 /\ hooks' = hooks /\ fast_path_flag' = fast_path_flag
            ELSE /\ res'[t] = <<"true">>
                 /\ Len(hooks') = n - 1
                 /\ \E j \in 1..n :
                     /\ hooks[j].h = h
                     /\ \A k \in 1..(j - 1) : hooks[k].h # h
                     /\ \A k \in 1..(n - 1) : hooks'[k] = hooks[IF k < j THEN k ELSE k + 1]
        /\ (pc[t] = "rem_return" /\ pc'[t] # "rem_return") =>
            /\ pc'[t] = "ret" /\ res'[t] = res[t]
            /\ hooks' = hooks /\ fast_path_flag' = fast_path_flag]_vars

\* C7 witness: remove_hook removed one entry of a hook object that was added
\* three times; the two later entries of it are still there.
C7_Witness ==
    \E t \in Threads :
        /\ pc[t] = "rem_store" /\ res[t] = <<"true">>
        /\ Len(hooks) = 2 /\ hooks[1].h = op[t].h /\ hooks[2].h = op[t].h
        /\ hooks[1].p = 5 /\ hooks[2].p = 0

\* C8: when clear_hooks returns, the list is empty and the flag is false;
\* a call that starts on a record in that state takes the fast path; and a
\* call on the fast path returns func of its own arguments, no hook having
\* been invoked and the original function once.
C8_ClearRestoresBaseline ==
    [][\A t \in Threads :
        /\ (pc[t] = "clr_return" /\ pc'[t] # "clr_return") =>
            hooks' = << >> /\ ~fast_path_flag'
        /\ (pc[t] = "idle" /\ op'[t].kind = "call" /\ hooks = << >> /\ ~fast_path_flag) =>
            pc'[t] = "fast"
        /\ (pc[t] = "fast" /\ pc'[t] # "fast") =>
            /\ pc'[t] = "ret"
            /\ res'[t] = func(<<ArgOf(t)>>)
            /\ NoHookInvoked(t)' /\ nOrig'[t] = "once"]_vars

\* C8 witness: clear_hooks has returned on a record that held hooks (the
\* other thread read the flag as true before), and the record is empty.
C8_Witness ==
    \E t, u \in Threads :
        /\ pc[t] = "ret" /\ op[t].kind = "clear"
        /\ pc[u] = "disp_wait"
        /\ hooks = << >> /\ ~fast_path_flag

\* C9: a call on the fast path, and a call whose dispatch runs over an empty
\* list, returns func of the caller's own arguments, having invoked the
\* original function exactly once and no hook.
C9_EmptyListRunsOriginal ==
    \A t \in Threads :
        /\ (pc[t] = "ret" /\ via[t] = "fast") =>
            /\ res[t] = func(<<ArgOf(t)>>)
            /\ NoHookInvoked(t) /\ nOrig[t] = "once"
        /\ (pc[t] = "outer" /\ hooks = << >>) =>
            /\ cur[t] = func(<<ArgOf(t)>>)
            /\ NoHookInvoked(t) /\ nOrig[t] = "once"
        /\ (pc[t] = "ret" /\ via[t] = "disp" /\ NoHookInvoked(t)) =>
            /\ res[t] = func(<<ArgOf(t)>>) /\ nOrig[t] = "once"

\* C9 witness: a call read the flag as true, the list was emptied before the
\* dispatch took the read lock, and the dispatch has run the original.
C9_Witness ==
    \E t \in Threads :
        pc[t] = "outer" /\ via[t] = "disp" /\ hooks = << >> /\ ~fast_path_flag

\* C2: every call of `next` by the hook in slot i, the first or a later one,
\* whatever happened in the earlier ones, invokes the hook of slot i + 1 when
\* the list has one, and otherwise the original function; nothing else is
\* invoked by it.
C2_NextStartsAfterOwnSlot ==
    [][\A t \in Threads :
        (pc[t] = "next" /\ pc'[t] # "next" /\ stack[t] # << >>) =>
            LET i == Top(stack[t]).slot IN
            IF i + 1 < Len(hooks)
            THEN /\ Len(stack'[t]) = Len(stack[t]) + 1
                 /\ Top(stack'[t]).slot = i + 1
                 /\ Top(stack'[t]).h = hooks[i + 2].h
                 /\ nInv'[t] = [nInv[t] EXCEPT ![i + 1] = More(@)]
                 /\ nOrig'[t] = nOrig[t]
            ELSE /\ Len(stack'[t]) = Len(stack[t])
                 /\ nInv'[t] = nInv[t]
                 /\ nOrig'[t] = More(nOrig[t])]_vars

\* C10: when the hook in slot i returns without having called `next`, nothing
\* (no hook, not the original function) was invoked during its invocation,
\* and the value it returns arrives unchanged at its caller: the hook in
\* slot i - 1, or the outer call when i = 0.
C10_ShortCircuit ==
    [][\A t \in Threads :
        (pc[t] = "unwind" /\ pc'[t] # "unwind" /\ Top(stack[t]).calls = 0) =>
            /\ ~Top(stack[t]).sub
            /\ nInv'[t] = nInv[t] /\ nOrig'[t] = nOrig[t]
            /\ cur'[t] = HookResult(Top(stack[t]))
            /\ IF Top(stack[t]).slot = 0
               THEN pc'[t] = "outer" /\ stack'[t] = << >>
               ELSE /\ pc'[t] = "hook"
                    /\ Len(stack'[t]) = Len(stack[t]) - 1
                    /\ Top(stack'[t]).slot = Top(stack[t]).slot - 1
                    /\ Top(stack'[t]).last = HookResult(Top(stack[t]))]_vars

\* C11: once the add of a hook h has returned Ok, and until a remove_hook or
\* a clear_hooks is called (or one that was under way at the return goes
\* on), h is in the list and the flag is true; a call of the target that
\* begins then reads the flag as true and enters the dispatch; the dispatch
\* that takes its read lock then traverses a list that holds h; and when
\* every hook that ran called `next`, the slot of h was invoked.
C11_AddedHookIsSeen ==
    [][\A h \in settled' :
        /\ fast_path_flag' /\ \E k \in 1..Len(hooks') : hooks'[k].h = h
        /\ \A t \in Threads :
            /\ (h \in settled /\ pc[t] = "idle" /\ op'[t].kind = "call") =>
                    pc'[t] = "disp_wait" /\ via'[t] = "disp"
            /\ (pc[t] = "disp_wait" /\ pc'[t] = "next") =>
                    readers'[t] = 1
            /\ (pc[t] # "outer" /\ pc'[t] = "outer" /\ ~miss'[t]) =>
                    \E k \in 1..Len(hooks) :
                        hooks[k].h = h /\ nInv'[t][k - 1] = "once"]_vars

\* C11 witness: an add_hook has returned Ok on a record that held another
\* hook of higher priority; the other thread then began a call, which has
\* run the chain.
C11_Witness ==
    \E u, t \in Threads :
        /\ pc[u] = "ret" /\ op[u].kind = "add" /\ res[u] = <<"Ok">> /\ op[u].p = 0
        /\ op[u].h \in settled
        /\ pc[t] = "outer" /\ ~miss[t]
        /\ Len(hooks) = 2 /\ hooks[2].h = op[u].h /\ hooks[1].h # op[u].h

\* The mutator thread t called has returned: to the thread, or into the body
\* of the hook that called it.
MutatorReturned(t) ==
    IF pc[t] = "hook" THEN res[t] # NoRes
    ELSE pc[t] = "ret" /\ op[t].kind \in {"add", "remove", "clear"}

\* C12: every add_hook, remove_hook and clear_hooks call eventually returns,
\* a call made in the body of a hook during a dispatch of the record on the
\* calling thread included.
C12_MutatorsReturn ==
    \A t \in Threads : (t \in WritersWaiting) ~> MutatorReturned(t)

\* C13: lookup_hookable(name) returns the first record of the registry, in
\* iteration order, whose name is the query: the record returned has the
\* query as its name and the function it was registered with; of several
\* records of one name only the first is returned; with no record of the
\* name it returns None.
C13_LookupFirstMatch ==
    \A t \in Threads :
        (pc[t] = "ret" /\ op[t].kind = "lookup") =>
            LET q == op[t].arg IN
            IF \E i \in 1..Len(registry) : registry[i].name = q
            THEN \E i \in 1..Len(registry) :
                    /\ registry[i].name = q
                    /\ \A j \in 1..(i - 1) : registry[j].name # q
                    /\ res[t] = <<"Some", q, registry[i].func>>
            ELSE res[t] = <<"None">>

\* C13 witness: the registry holds a record of another name and then two
\* records of the name asked for; the lookup returned the first of the two.
C13_Witness ==
    \E t \in Threads :
        /\ pc[t] = "ret" /\ op[t].kind = "lookup" /\ op[t].arg = "add"
        /\ Len(registry) = 3
        /\ registry[1].name = "concat" /\ registry[2].name = "add" /\ registry[3].name = "add"
        /\ res[t] = <<"Some", "add", 2>>

InDispatch(t) ==
    \/ pc[t] \in {"next", "hook", "unwind", "outer", "raised", "outer_panic",
                  "re_wait", "re_run"}
    \/ Nested(t)

\* Thread t holds the write lock: it is between self.hooks.write() and the
\* drop of the guard.
Mutating ==
    {u \in Threads : pc[u] \in {"add_insert", "add_store", "add_return",
                                "rem_find", "rem_store", "rem_return",
                                "clr_clear", "clr_store", "clr_return"}}

\* C15: a dispatch holds the read lock from its start until the outer call
\* returns; the list changes only in a step of the thread that holds the
\* write lock, with no reader; no thread holds the write lock while a
\* dispatch is in progress; and no step taken while a dispatch is in
\* progress changes the list.
C15_NoMutationDuringDispatch ==
    [][/\ \A t \in Threads :
            InDispatch(t)' => readers'[t] >= 1 /\ writer' = NoThread /\ Mutating' = {}
       /\ \A t \in Threads :
            (pc[t] = "disp_wait" /\ pc'[t] = "next") => readers'[t] = readers[t] + 1
       /\ \A t \in Threads :
            (InDispatch(t) /\ ~InDispatch(t)') => readers'[t] = readers[t] - 1
       /\ (hooks' # hooks) =>
            /\ writer \in Mutating
            /\ \A t \in Threads : readers[t] = 0 /\ ~InDispatch(t)
       /\ (\E t \in Threads : InDispatch(t)) => hooks' = hooks]_vars

\* C15 witness: a dispatch over two hooks has run its chain and is about to
\* return while the other thread's mutator waits for the write lock.
C15_Witness ==
    \E t, u \in Threads :
        /\ t # u
        /\ pc[t] = "outer" /\ readers[t] = 1 /\ Len(hooks) = 2
        /\ nInv[t][0] = "once" /\ nInv[t][1] = "once"
        /\ u \in WritersWaiting

\* Thread t waits for the lock of the record: for the read lock at the start
\* of a dispatch (of the outer call, or of a call of the target made in the
\* body of a hook), or for the write lock in a mutator.
LockWaiting(t) == pc[t] \in {"disp_wait", "re_wait", "add_wait", "rem_wait", "clr_wait"}

\* C16: with hooks that call the target again during a dispatch while the
\* other thread calls add_hook, remove_hook and clear_hooks, every call that
\* waits for the lock of the record eventually completes.
C16_EveryCallCompletes ==
    \A t \in Threads : LockWaiting(t) ~> (pc[t] = "ret")

\* C17: whenever no thread holds the write lock, the flag is true exactly
\* when the list is non-empty; and when remove_hook is about to drop its
\* write guard the same holds: it has cleared the flag exactly when it
\* removed the last entry.
C17_FlagIffNonEmpty ==
    /\ writer = NoThread => (fast_path_flag <=> hooks # << >>)
    /\ \A t \in Threads : pc[t] = "rem_return" => (fast_path_flag <=> hooks # << >>)

\* C17 witness: the two threads each removed a hook of a list of two; one
\* has returned, and the list holds the other hook with the flag true while
\* the other thread's remove_hook waits for the write lock.
C17_Witness ==
    \E t, u \in Threads :
        /\ t # u
        /\ pc[t] = "ret" /\ op[t].kind = "remove" /\ res[t] = <<"true">>
        /\ pc[u] = "rem_wait" /\ op[u].h # op[t].h
        /\ writer = NoThread /\ Len(hooks) = 1 /\ hooks[1].h = op[u].h
        /\ fast_path_flag

\* The hooks in the list.
Listed == {hooks[j].h : j \in 1..Len(hooks)}

\* The hooks with an invocation in progress on thread t.
Running(t) == {stack[t][k].h : k \in 1..Len(stack[t])}

\* C18: when remove_hook or clear_hooks returns, no dispatch is in progress
\* on any thread and no thread holds a read guard; every hook with an
\* invocation in progress is in the list, at the slot it was selected from,
\* and a step that begins an invocation begins it for a hook in the list: a
\* hook that is not in the list has no invocation in progress and gets
\* none until an add puts it back.
C18_RemovedHookIsGone ==
    [][/\ \A t \in Threads :
            (pc[t] \in {"rem_return", "clr_return"} /\ pc'[t] # pc[t]) =>
                \A u \in Threads : ~InDispatch(u)' /\ readers'[u] = 0
       /\ \A t \in Threads :
            /\ Running(t)' \subseteq Listed'
            /\ \A k \in 1..Len(stack'[t]) :
                /\ stack'[t][k].slot < Len(hooks')
                /\ hooks'[stack'[t][k].slot + 1].h = stack'[t][k].h
            /\ \A i \in Slots :
                nInv'[t][i] \notin {nInv[t][i], "none"} =>
                    i < Len(hooks) /\ hooks[i + 1].h \in Listed']_vars

\* C18 witness: remove_hook(h) has returned true on a list of two that no
\* longer holds h; the other thread's call of the target, begun since, has
\* run the chain: one invocation, of the hook that is left.
C18_Witness ==
    \E t, u \in Threads :
        /\ t # u
        /\ pc[t] = "ret" /\ op[t].kind = "remove" /\ res[t] = <<"true">>
        /\ op[t].h \notin Listed /\ Len(hooks) = 1
        /\ pc[u] = "outer" /\ nInv[u][0] = "once" /\ nInv[u][1] = "none"
        /\ cur[u] = <<ArgOf(u), hooks[1].h, "orig", hooks[1].h>>

\* A panic is on its way through thread t: into a hook's call of `next`, or
\* out of call_with_hook.
Unwinding(t) == pc[t] \in {"raised", "outer_panic"}

\* C19: a panic raised by a hook or by the original function during a
\* dispatch is stopped by no frame of the core: it arrives in a hook's call
\* of `next` or leaves call_with_hook, and from there it goes to the caller
\* of the target as the outcome of the call, with the read guard dropped.
\* No step of the unwinding changes the list, the flag, the holder of the
\* write lock or the poison state of the lock.  The lock is never poisoned,
\* only the call a panic was raised in ends with a panic, and a mutator or
\* a call of the target that asks for the lock while no other operation is
\* under way finds it free.
C19_PanicLeavesRecordUsable ==
    [][/\ \A t \in Threads :
            (Unwinding(t) \/ Unwinding(t)') =>
                /\ hooks' = hooks /\ fast_path_flag' = fast_path_flag
                /\ writer' = writer /\ poisoned' = poisoned
       /\ \A t \in Threads :
            /\ pc'[t] = "raised" => stack'[t] # << >>
            /\ (pc[t] \in {"next", "hook"} /\ Unwinding(t)') =>
                    pc'[t] = (IF Len(stack'[t]) = 0 THEN "outer_panic" ELSE "raised")
            /\ pc[t] = "outer_panic" =>
                    pc'[t] = "ret" /\ res'[t] = <<"panic">> /\ readers'[t] = 0
            /\ (res'[t] = <<"panic">> /\ res[t] # <<"panic">>) =>
                    pc[t] \in {"outer_panic", "fast"} /\ op[t].kind = "call"
       /\ ~poisoned'
       /\ \A t \in Threads :
            (\A u \in Threads \ {t} : pc'[u] = "idle") =>
                /\ t \in WritersWaiting' => CanWrite'
                /\ pc'[t] = "disp_wait" => CanRead']_vars

\* C19 witness: the original function panicked under two hooks that do not
\* catch; the panic has left the call, the list and the flag are as they
\* were, no guard is held and the lock is not poisoned.
C19_Witness ==
    \E t \in Threads :
        /\ pc[t] = "ret" /\ res[t] = <<"panic">> /\ via[t] = "disp"
        /\ Len(hooks) = 2 /\ fast_path_flag
        /\ nInv[t][0] = "once" /\ nInv[t][1] = "once" /\ nOrig[t] = "once"
        /\ readers[t] = 0 /\ writer = NoThread /\ ~poisoned

\* C20: when a hook that caught a panic raised inside its call of `next`
\* (by a downstream hook or by the original function) calls `next` again,
\* that call starts at the slot after the hook's own: next_fn finds the
\* cursor at slot + 1, and what it runs is the hook of that slot, or the
\* original function when the hook is the last of the list.
C20_RetryKeepsPosition ==
    [][\A t \in Threads :
        (/\ pc[t] = "hook" /\ pc'[t] = "next"
         /\ Top(stack[t]).calls >= 1
         /\ Top(stack[t]).last = <<"panic">>) =>
            pos'[t] = Top(stack[t]).slot + 1]_vars

\* Thread t takes the step.
Moved(t) == pc'[t] # pc[t] \/ nNext'[t] # nNext[t] \/ res'[t] # res[t]

\* C21: no step of a call of the target, from the load of the flag to the
\* return of the outer call and whatever the hooks do with `next`, changes
\* the list (entries, priorities, order) or the flag of the record; and no
\* step of any operation changes the name, the function pointer or the
\* signature tag of a record, or the list or the flag of another record.
C21_DispatchLeavesRecords ==
    [][/\ \A t \in Threads :
            (Moved(t) /\ (op[t].kind = "call" \/ op'[t].kind = "call")) =>
                hooks' = hooks /\ fast_path_flag' = fast_path_flag
       /\ Len(registry') = Len(registry)
       /\ \A i \in 1..Len(registry) :
            /\ registry'[i].name = registry[i].name
            /\ registry'[i].func = registry[i].func
            /\ registry'[i].type_info = registry[i].type_info
       /\ other'.hooks = other.hooks
       /\ other'.fast_path_flag = other.fast_path_flag]_vars

\* C21 witness: an outer call over two hooks that called `next` four times
\* in all has returned a value; the list still holds the two hooks and the
\* flag is true; the second function's record holds its two hooks.
C21_Witness ==
    \E t \in Threads :
        /\ pc[t] = "ret" /\ op[t].kind = "call" /\ via[t] = "disp"
        /\ res[t] # <<"panic">> /\ nNext[t] = 4
        /\ Len(hooks) = 2 /\ fast_path_flag
        /\ nInv[t][0] = "once" /\ nInv[t][1] = "many"
        /\ Len(registry) = 2 /\ registry[2].name = "concat"
        /\ Len(other.hooks) = 2 /\ other.fast_path_flag

\* C22: the cursor of a dispatch is never below 0 and never above the
\* length of the list; next_fn selects a hook only at an index inside the
\* list; the decrement after a hook returned finds the cursor above 0; and
\* when the outer next_fn returns to call_with_hook after a dispatch in
\* which no panic unwound a hook, the cursor is 0.
C22_CursorInBounds ==
    [][\A t \in Threads :
        /\ 0 <= pos'[t] /\ pos'[t] <= Len(hooks')
        /\ (pc[t] = "next" /\ Len(stack'[t]) > Len(stack[t])) =>
                /\ 0 <= pos[t] /\ pos[t] < Len(hooks)
                /\ Top(stack'[t]).slot = pos[t]
        /\ pc[t] = "unwind" => pos[t] >= 1 /\ pos'[t] >= 0
        /\ (pc[t] = "unwind" /\ pc'[t] = "outer" /\ ~Top(stack[t]).unw) =>
                pos'[t] = 0]_vars

\* C22 witness: the dispatch is three hooks deep in a list of three, after
\* four calls of `next` and no panic: the cursor is at the length of the
\* list.
C22_Witness ==
    \E t \in Threads :
        /\ pc[t] = "hook" /\ Len(stack[t]) = 3 /\ Len(hooks) = 3
        /\ pos[t] = 3 /\ nNext[t] = 4
        /\ \A k \in 1..3 : ~stack[t][k].unw

\* ------------------------------------------------------------- specifications
\* The threads in T call the mutators, with priorities drawn from P.
MutatorCalls(T, P) ==
    \E t \in T :
        \/ \E h \in HookObjs, p \in P : add_hook_with_priority(t, h, p)
        \/ \E h \in HookObjs : add_hook(t, h)
        \/ \E h \in HookObjs : remove_hook(t, h)
        \/ clear_hooks(t)

\* The steps of the mutators the threads in T are in.
MutatorSteps(T) ==
    \E t \in T :
        \/ add_write(t)
        \/ add_insert(t)
        \/ add_store(t)
        \/ add_return(t)
        \/ remove_write(t)
        \/ remove_find(t)
        \/ remove_store(t)
        \/ remove_return(t)
        \/ clear_write(t)
        \/ clear_clear(t)
        \/ clear_store(t)
        \/ clear_return(t)

\* The threads in T call the target, with hooks that call `next` at most k
\* times.
TargetCalls(T, k) ==
    \E t \in T :
        \/ hookable(t)
        \/ hookable_inner(t)
        \/ call_with_hook(t)
        \/ next_fn(t)
        \/ next_fn_exit(t)
        \/ hook_call_next(t, k)
        \/ hook_return(t)
        \/ call_return(t)

\* The steps of the threads in T, with hooks that call `next` at most k
\* times and priorities drawn from P.
Step(T, k, P) ==
    \/ MutatorCalls(T, P)
    \/ MutatorSteps(T)
    \/ TargetCalls(T, k)
    \/ \E t \in T : finish(t)

\* The steps of a panic in the threads in T.
Panics(T) ==
    \E t \in T :
        \/ hook_panic(t)
        \/ func_panic(t)
        \/ hookable_inner_panic(t)
        \/ hook_catch(t)
        \/ hook_propagate(t)
        \/ call_unwind(t)

\* Every thread, with hooks that call `next` at most once, as the hooks of
\* the tests do, and that return normally.
Next == Step(Threads, TestNext, PriosConc)

Spec == Init /\ [][Next]_vars

\* One thread, with hooks that call `next` any number of times, that panic
\* and that catch panics.
NextSeq == Step({"t1"}, MaxNext, Prios) \/ Panics({"t1"})

SpecSeq == Init /\ [][NextSeq]_vars

\* The hooks of the threads in T call the mutators.
MutatorReentry(T) ==
    \E t \in T :
        \/ \E h \in HookObjs : hook_add_hook(t, h)
        \/ \E h \in HookObjs : hook_remove_hook(t, h)
        \/ hook_clear_hooks(t)
        \/ write_panic(t)

\* The hooks of the threads in T call the target.
TargetReentry(T) ==
    \E t \in T :
        \/ hook_hookable(t)
        \/ hook_call_with_hook(t)
        \/ hook_call_return(t)

\* The hooks of the threads in T call the mutators and the target.
Reentry(T) == MutatorReentry(T) \/ TargetReentry(T)

\* Thread t1 calls the target, with hooks that call `next` at most once, the
\* mutators and the target, and that panic; thread t2 calls the mutators.
NextLive ==
    \/ TargetCalls({"t1"}, TestNext)
    \/ Reentry({"t1"})
    \/ Panics({"t1"})
    \/ MutatorCalls({"t2"}, PriosLive)
    \/ MutatorSteps(Threads)
    \/ \E t \in Threads : finish(t)

\* The steps a thread takes by itself, once it can: everything but the
\* start of an operation, the choices of a hook (to call, to panic) and the
\* waits for the lock.
LocalSteps(t) ==
    \/ add_insert(t) \/ add_store(t) \/ add_return(t)
    \/ remove_find(t) \/ remove_store(t) \/ remove_return(t)
    \/ clear_clear(t) \/ clear_store(t) \/ clear_return(t)
    \/ hookable_inner(t) \/ next_fn(t) \/ next_fn_exit(t)
    \/ hook_return(t) \/ call_return(t)
    \/ hook_propagate(t) \/ call_unwind(t)
    \/ hook_call_return(t)
    \/ finish(t)

\* Scheduling: a thread that can take a step of its own takes one; a thread
\* waiting for the write lock gets it when the lock is free again and
\* again; a thread waiting for the read lock gets it when again and again
\* no writer holds the lock and none waits for it.  (Whether a reader gets
\* the lock while a writer waits is the lock's choice: std leaves the
\* priority policy to the operating system.)  Every one of these steps
\* moves the thread, so each is told by the change of pc.
Fairness ==
    \A t \in Threads :
        /\ WF_pc(LocalSteps(t))
        /\ SF_pc(add_write(t))
        /\ SF_pc(remove_write(t))
        /\ SF_pc(clear_write(t))
        /\ SF_pc(call_with_hook(t) /\ WritersWaiting = {})
        /\ SF_pc(hook_call_with_hook(t) /\ WritersWaiting = {})

SpecLive == Init /\ [][NextLive]_vars /\ Fairness

\* Thread t1 calls the target, with hooks that return normally, call `next`
\* at most once and call the target; thread t2 calls the mutators.
NextReenter ==
    \/ TargetCalls({"t1"}, TestNext)
    \/ TargetReentry({"t1"})
    \/ MutatorCalls({"t2"}, PriosLive)
    \/ MutatorSteps({"t2"})
    \/ \E t \in Threads : finish(t)

SpecReenter == Init /\ [][NextReenter]_vars /\ Fairness

\* Lookups by name in any registry.
InitLookup ==
    /\ InitRecord
    /\ registry \in Registries
    /\ other = NewRecord
    /\ settled = Untracked

NextLookup ==
    \E t \in Threads :
        \/ \E name \in QueryNames : lookup_hookable(t, name)
        \/ finish(t)

SpecLookup == InitLookup /\ [][NextLookup]_vars

\* One thread (as in SpecSeq) on the first of two hookable functions; the
\* second has any of its lists.
InitFrame ==
    /\ InitRecord
    /\ registry = TwoRecords
    /\ other \in OtherRecords
    /\ settled = Untracked

SpecFrame == InitFrame /\ [][NextSeq]_vars

\* Spec with the history of the settled adds kept.
InitTrack ==
    /\ InitRecord
    /\ registry = <<TargetRecord>>
    /\ other = NewRecord
    /\ settled = {}

SpecTrack == InitTrack /\ [][Next]_vars

====
